---------------------------- MODULE Spec2Model ----------------------------
(***************************************************************************)
(* Adam<DecomposableFunctionType>::Optimize of                            *)
(* src/mlpack/core/optimizers/adam/adam_impl.hpp as a state machine.      *)
(*                                                                         *)
(* A double is a fixed-point number: the integer n stands for n / Unit,   *)
(* the finite doubles are -DBL_MAX .. DBL_MAX, and three more values      *)
(* stand for +inf, -inf and NaN.  Every arithmetic operation rounds its   *)
(* exact result to the nearest representable value (ties to even) and     *)
(* overflows to an infinity, as IEEE 754 arithmetic does; the sign of a   *)
(* zero is not kept.  An arma::mat is the sequence of its entries, the    *)
(* empty sequence being the matrix that was never allocated.              *)
(***************************************************************************)
EXTENDS Integers, Sequences, FiniteSets, TLC

\* ------------------------------------------------------------------ bounds

\* Number of fixed-point steps per 1.0 (the precision of a double).
Unit == 4

\* Largest finite magnitude, in units of 1.0.
MaxMag == 16

\* Largest maxIterations an optimizer is constructed with.
MaxIterationsBound == 7

\* Largest number of terms the objective reports.
MaxNumFunctions == 3

\* Number of entries of the iterate (n_rows * n_cols).
NElem == 1

\* ----------------------------------------------------------------- doubles

DBL_MAX == MaxMag * Unit

PosInf == DBL_MAX + 1

NegInf == -PosInf

NaN == DBL_MAX + 2

Double == NegInf .. NaN

isnan(x) == x = NaN

isinf(x) == x = PosInf \/ x = NegInf

Magnitude(n) == IF n < 0 THEN -n ELSE n

\* n / d for n >= 0, d > 0, rounded to the nearest integer, ties to even.
RoundHalfEven(n, d) ==
  LET q == n \div d
      r == n % d
  IN  IF 2 * r < d THEN q
      ELSE IF 2 * r > d THEN q + 1
      ELSE IF q % 2 = 0 THEN q ELSE q + 1

\* n / d for any n and any d # 0, rounded to nearest.
Round(n, d) ==
  LET q == RoundHalfEven(Magnitude(n), Magnitude(d))
  IN  IF (n < 0) = (d < 0) THEN q ELSE -q

\* An exact result brought back into the doubles: overflow gives an infinity.
Overflow(z) == IF z > DBL_MAX THEN PosInf ELSE IF z < -DBL_MAX THEN NegInf ELSE z

\* The arithmetic is tabulated over Double: an operand is a value by the time
\* the case analysis looks at it.

NegOf == [a \in Double |-> IF isnan(a) THEN NaN ELSE -a]

AbsOf == [a \in Double |-> IF isnan(a) THEN NaN ELSE Magnitude(a)]

AddOf == [a \in Double |-> [b \in Double |->
  IF isnan(a) \/ isnan(b) THEN NaN
  ELSE IF isinf(a) THEN (IF isinf(b) /\ b # a THEN NaN ELSE a)
  ELSE IF isinf(b) THEN b
  ELSE Overflow(a + b)]]

MulOf == [a \in Double |-> [b \in Double |->
  IF isnan(a) \/ isnan(b) THEN NaN
  ELSE IF isinf(a) \/ isinf(b)
       THEN IF a = 0 \/ b = 0 THEN NaN
            ELSE IF (a < 0) = (b < 0) THEN PosInf ELSE NegInf
  ELSE Overflow(Round(a * b, Unit))]]

DivOf == [a \in Double |-> [b \in Double |->
  IF isnan(a) \/ isnan(b) THEN NaN
  ELSE IF isinf(a) THEN (IF isinf(b) THEN NaN ELSE IF b < 0 THEN -a ELSE a)
  ELSE IF isinf(b) THEN 0
  ELSE IF b = 0 THEN (IF a = 0 THEN NaN ELSE IF a > 0 THEN PosInf ELSE NegInf)
  ELSE Overflow(Round(a * Unit, b))]]

\* a < b on doubles: false as soon as one side is NaN.
LessOf == [a \in Double |-> [b \in Double |-> ~isnan(a) /\ ~isnan(b) /\ a < b]]

\* Largest r with r * r <= n, for n >= 0.
ISqrt(n) == CHOOSE r \in 0 .. n : r * r <= n /\ (r + 1) * (r + 1) > n

SqrtOf == [a \in Double |->
  IF isnan(a) \/ a < 0 THEN NaN
  ELSE IF a = PosInf THEN PosInf
  ELSE LET n == a * Unit
           r == ISqrt(n)
       IN  IF n - r * r > r THEN r + 1 ELSE r]

RECURSIVE IntPow(_, _)
IntPow(b, k) == IF k = 0 THEN 1 ELSE b * IntPow(b, k - 1)

\* The exact power b^k of a double, for an integer k >= 1, rounded once.
PowOf == [b \in Double |-> [k \in 1 .. MaxIterationsBound + 1 |->
  IF isnan(b) THEN NaN
  ELSE IF isinf(b) THEN (IF b < 0 /\ k % 2 = 1 THEN NegInf ELSE PosInf)
  ELSE Overflow(Round(IntPow(b, k), IntPow(Unit, k - 1)))]]

Neg(a) == NegOf[a]

abs(a) == AbsOf[a]

Add(a, b) == AddOf[a][b]

Sub(a, b) == AddOf[a][NegOf[b]]

Mul(a, b) == MulOf[a][b]

Div(a, b) == DivOf[a][b]

Less(a, b) == LessOf[a][b]

sqrt(a) == SqrtOf[a]

\* std::pow(b, (double) k).
pow(b, k) == PowOf[b][k]

\* ---------------------------------------------------------------- matrices

zeros(n) == [j \in 1 .. n |-> 0]

\* arma::linspace<arma::Col<size_t>>(first, last, num).
linspace(first, last, num) ==
  [j \in 1 .. num |->
     IF num = 1 THEN last ELSE first + ((j - 1) * (last - first)) \div (num - 1)]

\* The values held by a vector.
Elements(order) == {order[k] : k \in 1 .. Len(order)}

\* Bug variant of Shuffle: every position is drawn independently.
ShuffleWithReplacement(order) == [1 .. Len(order) -> Elements(order)]

\* arma::shuffle(order): the outcomes the random source can produce, which are
\* the rearrangements of order (its entries are pairwise distinct).
Shuffle(order) ==
  {p \in [1 .. Len(order) -> Elements(order)] :
     \A a, b \in 1 .. Len(order) : p[a] = p[b] => a = b}

\* (std::max)(a, b), which arma::max applies to each pair of entries.
Max(a, b) == IF Less(a, b) THEN b ELSE a

\* Left-to-right sum of the entries A[1] .. A[k], starting from 0.
RECURSIVE SumTo(_, _)
SumTo(A, k) == IF k = 0 THEN 0 ELSE Add(SumTo(A, k - 1), A[k])

\* ------------------------------------------------------------------- state

VARIABLES
  function,          \* the objective: [kind, NumFunctions]
  stepSize, beta1, beta2, eps, maxIterations, tolerance, shuffle, adaMax,
  iterate,           \* the caller's matrix, updated in place
  pc,                \* "start", "loop", "body", "done"
  visitationOrder, currentFunction, overallObjective, lastObjective,
  gradient, m, u, v, i,
  result,            \* the value Optimize returned
  exit,              \* which return statement was taken
  steps,             \* completed loop bodies (history)
  gradIdx,           \* indices passed to Gradient, in call order (history)
  evalIdx,           \* indices passed to Evaluate inside the loop (history)
  epochEvals,        \* values Evaluate returned in the steps of the epoch (history)
  shuffles,          \* arma::shuffle calls made inside the loop (history)
  epochs,            \* epochs begun (history)
  iterate0           \* iterate as it was passed to Optimize (history)

params == <<function, stepSize, beta1, beta2, eps, maxIterations, tolerance,
            shuffle, adaMax, iterate0>>

locals == <<visitationOrder, currentFunction, overallObjective, lastObjective,
            gradient, m, u, v, i>>

history == <<steps, gradIdx, evalIdx, epochEvals, shuffles, epochs>>

vars == <<params, iterate, pc, locals, result, exit, history>>

\* --------------------------------------------------------------- objective
\* The DecomposableFunctionType the optimizer is instantiated with: N terms,
\* each a pure function of (iterate, index).

Target(idx) == (idx + 1) * Unit

Slope(idx) == -((idx + 1) * Unit)

\* "squares": f_idx(x) = sum_j (x_j - Target(idx))^2.
\* "linear":  f_idx(x) = sum_j Slope(idx) * x_j, unbounded below.
TermValue(kind, x, idx) ==
  IF kind = "squares"
  THEN LET d == Sub(x, Target(idx)) IN Mul(d, d)
  ELSE Mul(Slope(idx), x)

TermSlope(kind, x, idx) ==
  IF kind = "squares"
  THEN Mul(2 * Unit, Sub(x, Target(idx)))
  ELSE Slope(idx)

Evaluate(X, idx) ==
  SumTo([j \in 1 .. Len(X) |-> TermValue(function.kind, X[j], idx)], Len(X))

Gradient(X, idx) ==
  [j \in 1 .. Len(X) |-> TermSlope(function.kind, X[j], idx)]

numFunctions == function.NumFunctions

\* "for (size_t i = 0; i < k; ++i) overallObjective += function.Evaluate(
\* iterate, i)" run on an overallObjective that holds acc.
RECURSIVE ObjectiveFrom(_, _, _)
ObjectiveFrom(acc, X, k) ==
  IF k = 0 THEN acc ELSE Add(ObjectiveFrom(acc, X, k - 1), Evaluate(X, k - 1))

\* Lines 60-65: the first objective.
FirstObjective(X) == ObjectiveFrom(0, X, numFunctions)

\* Bug variant of FinalObjective: "overallObjective = 0" is missing.
FinalObjectiveKeepingPartial(partial, X) == ObjectiveFrom(partial, X, numFunctions)

\* Lines 173-175, entered with overallObjective = partial.
FinalObjective(partial, X) == ObjectiveFrom(0, X, numFunctions)

\* ------------------------------------------------------------ construction

StepSizes == {Unit \div 2, 4 * Unit}

Betas1 == {Unit \div 2, Unit}

Betas2 == {0, Unit \div 2}

EpsValues == {1}

Tolerances == {0, Unit \div 2, DBL_MAX}

StartPoints == {0, Unit, 6 * Unit}

Kinds == {"squares", "linear"}

Init ==
  /\ function \in [kind : Kinds, NumFunctions : 1 .. MaxNumFunctions]
  /\ stepSize \in StepSizes
  /\ beta1 \in Betas1
  /\ beta2 \in Betas2
  /\ eps \in EpsValues
  /\ maxIterations \in 1 .. MaxIterationsBound
  /\ tolerance \in Tolerances
  /\ shuffle \in BOOLEAN
  /\ adaMax \in BOOLEAN
  /\ iterate \in {[j \in 1 .. NElem |-> x] : x \in StartPoints}
  /\ iterate0 = iterate
  /\ pc = "start"
  /\ visitationOrder = << >>
  /\ currentFunction = 0
  /\ overallObjective = 0
  /\ lastObjective = 0
  /\ gradient = << >>
  /\ m = << >>
  /\ u = << >>
  /\ v = << >>
  /\ i = 0
  /\ result = 0
  /\ exit = "none"
  /\ steps = 0
  /\ gradIdx = << >>
  /\ evalIdx = << >>
  /\ epochEvals = << >>
  /\ shuffles = 0
  /\ epochs = 0

\* ---------------------------------------------------------------- Optimize

\* Bug variant of InitialLastObjective: lastObjective starts at zero.
InitialLastObjectiveZero == Unit - Unit

InitialLastObjective == DBL_MAX

\* Lines 50-86: everything before the loop.  The gradient buffer is allocated
\* without being initialised; Gradient overwrites it before it is ever read.
Begin ==
  /\ pc = "start"
  /\ visitationOrder' \in
       (IF shuffle THEN Shuffle(linspace(0, numFunctions - 1, numFunctions))
        ELSE {<< >>})
  /\ currentFunction' = 0
  /\ lastObjective' = InitialLastObjective
  /\ overallObjective' = FirstObjective(iterate)
  /\ gradient' = zeros(Len(iterate))
  /\ m' = zeros(Len(iterate))
  /\ u' = (IF adaMax THEN zeros(Len(iterate)) ELSE << >>)
  /\ v' = (IF adaMax THEN << >> ELSE zeros(Len(iterate)))
  /\ i' = 1
  /\ pc' = "loop"
  /\ UNCHANGED <<params, iterate, result, exit, history>>

\* Bug variant of LoopCondition: the loop runs one iteration too many.
LoopConditionOffByOne(t) == t # maxIterations + 1

\* The loop condition "i != maxIterations".
LoopCondition(t) == t # maxIterations

\* Bug variant of AtBoundary: the boundary block runs on every iteration.
AtBoundaryAlways(cf) == cf >= 0

\* "Is this iteration the start of a sequence?"
AtBoundary(cf) == (cf % numFunctions) = 0

\* Bug variant of Diverged: NaN is not tested.
DivergedInfOnly(objective) == isinf(objective)

\* std::isnan(overallObjective) || std::isinf(overallObjective)
Diverged(objective) == isnan(objective) \/ isinf(objective)

\* Bug variant of WithinTolerance: "<=" in place of "<".
WithinToleranceInclusive(last, objective) ==
  ~isnan(abs(Sub(last, objective))) /\ ~Less(tolerance, abs(Sub(last, objective)))

\* std::abs(lastObjective - overallObjective) < tolerance
WithinTolerance(last, objective) == Less(abs(Sub(last, objective)), tolerance)

Return(value, how) ==
  /\ result' = value
  /\ exit' = how
  /\ pc' = "done"

\* Lines 97-103.
Diverge ==
  /\ pc = "loop"
  /\ LoopCondition(i)
  /\ AtBoundary(currentFunction)
  /\ Diverged(overallObjective)
  /\ Return(overallObjective, "diverged")
  /\ UNCHANGED <<params, iterate, locals, history>>

\* Lines 105-110.
Converge ==
  /\ pc = "loop"
  /\ LoopCondition(i)
  /\ AtBoundary(currentFunction)
  /\ ~Diverged(overallObjective)
  /\ WithinTolerance(lastObjective, overallObjective)
  /\ Return(overallObjective, "converged")
  /\ UNCHANGED <<params, iterate, locals, history>>

\* Lines 112-118: the boundary was passed, a new epoch begins.
NewEpoch ==
  /\ pc = "loop"
  /\ LoopCondition(i)
  /\ AtBoundary(currentFunction)
  /\ ~Diverged(overallObjective)
  /\ ~WithinTolerance(lastObjective, overallObjective)
  /\ lastObjective' = overallObjective
  /\ overallObjective' = 0
  /\ currentFunction' = 0
  /\ visitationOrder' \in
       (IF shuffle THEN Shuffle(visitationOrder) ELSE {visitationOrder})
  /\ shuffles' = (IF shuffle THEN shuffles + 1 ELSE shuffles)
  /\ epochs' = epochs + 1
  /\ epochEvals' = << >>
  /\ pc' = "body"
  /\ UNCHANGED <<params, iterate, gradient, m, u, v, i, result, exit,
                 steps, gradIdx, evalIdx>>

\* Bug variant of TermIndex: the position is taken after the increment.
TermIndexFromOne(order, cf) ==
  IF shuffle THEN order[cf + 1] ELSE (cf + 1) % numFunctions

\* The index handed to Gradient and to Evaluate (lines 122-125, 163-167).
TermIndex(order, cf) == IF shuffle THEN order[cf + 1] ELSE cf

\* m *= beta1; m += (1 - beta1) * gradient;
FirstMoment(m0, g) ==
  [j \in 1 .. Len(m0) |-> Add(Mul(m0[j], beta1), Mul(Sub(Unit, beta1), g[j]))]

\* Bug variant of InfNorm: the gradient enters with its sign.
InfNormSigned(u0, g) ==
  [j \in 1 .. Len(u0) |-> Max(Mul(u0[j], beta2), g[j])]

\* u *= beta2; u = arma::max(u, arma::abs(gradient));
InfNorm(u0, g) ==
  [j \in 1 .. Len(u0) |-> Max(Mul(u0[j], beta2), abs(g[j]))]

\* v *= beta2; v += (1 - beta2) * (gradient % gradient);
SecondMoment(v0, g) ==
  [j \in 1 .. Len(v0) |->
     Add(Mul(v0[j], beta2), Mul(Sub(Unit, beta2), Mul(g[j], g[j])))]

biasCorrection1(t) == Sub(Unit, pow(beta1, t))

biasCorrection2(t) == Sub(Unit, pow(beta2, t))

\* Bug variant of AdaMaxUpdate: no test of biasCorrection1.
AdaMaxUpdateUnguarded(X, m1, u1, bc1) ==
  [j \in 1 .. Len(X) |->
     Sub(X[j], Div(Mul(Div(stepSize, bc1), m1[j]), Add(u1[j], eps)))]

\* if (biasCorrection1 != 0.0) iterate -= (stepSize / biasCorrection1 * m / (u + eps));
AdaMaxUpdate(X, m1, u1, bc1) ==
  IF bc1 # 0
  THEN [j \in 1 .. Len(X) |->
          Sub(X[j], Div(Mul(Div(stepSize, bc1), m1[j]), Add(u1[j], eps)))]
  ELSE X

\* iterate -= (stepSize * std::sqrt(biasCorrection2) / biasCorrection1) *
\*            m / (arma::sqrt(v) + eps);
AdamUpdate(X, m1, v1, bc1, bc2) ==
  [j \in 1 .. Len(X) |->
     Sub(X[j], Div(Mul(Div(Mul(stepSize, sqrt(bc2)), bc1), m1[j]),
                   Add(sqrt(v1[j]), eps)))]

\* The loop body is entered right after a boundary was passed, or directly
\* when the iteration is not the start of an epoch.
InBody ==
  \/ pc = "body"
  \/ pc = "loop" /\ LoopCondition(i) /\ ~AtBoundary(currentFunction)

\* Lines 121-167 and the loop's "++i, ++currentFunction".
Step ==
  /\ InBody
  /\ \E idx \in {TermIndex(visitationOrder, currentFunction)} :
     \E g \in {Gradient(iterate, idx)} :
     \E m1 \in {FirstMoment(m, g)} :
     \E u1 \in {IF adaMax THEN InfNorm(u, g) ELSE u} :
     \E v1 \in {IF adaMax THEN v ELSE SecondMoment(v, g)} :
     \E bc1 \in {biasCorrection1(i)} :
     \E bc2 \in {biasCorrection2(i)} :
     \E X1 \in {IF adaMax THEN AdaMaxUpdate(iterate, m1, u1, bc1)
                ELSE AdamUpdate(iterate, m1, v1, bc1, bc2)} :
     \E val \in {Evaluate(X1, idx)} :
         /\ gradient' = g
         /\ m' = m1
         /\ u' = u1
         /\ v' = v1
         /\ iterate' = X1
         /\ overallObjective' = Add(overallObjective, val)
         /\ gradIdx' = Append(gradIdx, idx)
         /\ evalIdx' = Append(evalIdx, idx)
         /\ epochEvals' = Append(epochEvals, val)
  /\ i' = i + 1
  /\ currentFunction' = currentFunction + 1
  /\ steps' = steps + 1
  /\ pc' = "loop"
  /\ UNCHANGED <<params, visitationOrder, lastObjective, result, exit,
                 shuffles, epochs>>

\* Lines 170-176: the iteration budget is spent.
Exhaust ==
  /\ pc = "loop"
  /\ ~LoopCondition(i)
  /\ overallObjective' = FinalObjective(overallObjective, iterate)
  /\ Return(overallObjective', "exhausted")
  /\ UNCHANGED <<params, iterate, visitationOrder, currentFunction,
                 lastObjective, gradient, m, u, v, i, history>>

Next == Begin \/ Diverge \/ Converge \/ NewEpoch \/ Step \/ Exhaust

Spec == Init /\ [][Next]_vars

\* Optimize is straight-line sequential code: a step that can be taken is taken.
FairSpec == Spec /\ WF_vars(Next)


\* ------------------------------------------------------------------ claims

Indices == 0 .. numFunctions - 1

\* The aggregate accumulated by the steps of the epoch, summed as the loop sums it.
EpochSum == SumTo(epochEvals, Len(epochEvals))

\* A boundary check is about to run: the loop test passed and the iteration
\* starts an epoch.
BoundaryReached ==
  pc = "loop" /\ i # maxIterations /\ currentFunction % numFunctions = 0

NonFinite(x) == x = NaN \/ x = PosInf \/ x = NegInf

\* |last - objective| < tolerance, for finite last and objective.
Close(last, objective) ==
  LET d == last - objective
  IN  tolerance # NaN /\ d <= DBL_MAX /\ -d <= DBL_MAX /\ Magnitude(d) < tolerance

StepTaken == steps' = steps + 1

\* C1: Optimize eventually returns; it never performs more than
\* maxIterations - 1 update steps, and with maxIterations = 1 it returns after
\* zero steps with iterate unchanged.
C1_BoundedTermination ==
  /\ <>(pc = "done")
  /\ [](steps <= maxIterations - 1)
  /\ [](Len(gradIdx) = steps)
  /\ [](pc = "done" /\ maxIterations = 1 => steps = 0 /\ iterate = iterate0)

C1_Witness == pc = "done" /\ steps = maxIterations - 1 /\ steps >= 4

\* C2: without shuffling, the index passed to Gradient at update step t is
\* (t - 1) mod numFunctions, whatever the objective returned.
C2_SequentialVisitation ==
  ~shuffle => \A t \in 1 .. Len(gradIdx) : gradIdx[t] = (t - 1) % numFunctions

C2_Witness ==
  /\ ~shuffle
  /\ numFunctions = MaxNumFunctions
  /\ Len(gradIdx) = 2 * numFunctions
  /\ gradIdx = [t \in 1 .. 2 * numFunctions |-> (t - 1) % numFunctions]

\* C3: a boundary reached with a NaN or infinite aggregate makes Optimize
\* return that aggregate at once: no Gradient or Evaluate call, no change of
\* the moments, of iterate or of the iteration counter; at t = 1 this leaves
\* iterate as it was passed in.
C3_DivergenceReturns ==
  /\ [][BoundaryReached /\ NonFinite(overallObjective)
          => /\ pc' = "done"
             /\ exit' = "diverged"
             /\ result' = overallObjective
             /\ UNCHANGED <<iterate, locals, history>>]_vars
  /\ [](exit = "diverged" => NonFinite(result) /\ result = overallObjective)
  /\ [](exit = "diverged" /\ steps = 0 => iterate = iterate0)

C3_Witness == exit = "diverged" /\ steps > 0 /\ result = NaN

C3_WitnessInfinite == exit = "diverged" /\ steps > 0 /\ result = PosInf

\* The convergence branch is taken exactly at a boundary with a finite
\* aggregate within tolerance of lastObjective, and nothing runs after it.
C4_BranchTaken ==
  /\ [][BoundaryReached /\ ~NonFinite(overallObjective)
          /\ Close(lastObjective, overallObjective)
          => /\ pc' = "done"
             /\ exit' = "converged"
             /\ result' = overallObjective
             /\ UNCHANGED <<iterate, locals, history>>]_vars
  /\ [][exit' = "converged" /\ exit # "converged"
          => /\ BoundaryReached
             /\ ~NonFinite(overallObjective)
             /\ Close(lastObjective, overallObjective)]_vars
  /\ [][pc = "done" => UNCHANGED vars]_vars

\* C4 as stated: the value returned through the convergence branch is the sum,
\* over the steps of the epoch just finished, of Evaluate after each update.
C4_Original ==
  /\ C4_BranchTaken
  /\ [](exit = "converged"
          => Len(epochEvals) = numFunctions /\ result = EpochSum)

\* C4 amended: the value returned is the running aggregate, which is the sum
\* over the steps of the epoch just finished when an epoch was completed, and
\* the initial full sum when the branch fires at the first boundary.
C4_ConvergenceReturn ==
  /\ C4_BranchTaken
  /\ [](exit = "converged" => result = overallObjective)
  /\ [](exit = "converged" /\ steps > 0
          => Len(epochEvals) = numFunctions /\ result = EpochSum)
  /\ [](exit = "converged" /\ steps = 0
          => iterate = iterate0 /\ result = ObjectiveFrom(0, iterate0, numFunctions))

C4_Witness ==
  /\ exit = "converged"
  /\ steps = 2 * numFunctions
  /\ numFunctions >= 2
  /\ iterate # iterate0
  /\ tolerance < DBL_MAX
  /\ result = EpochSum
  /\ result # ObjectiveFrom(0, iterate, numFunctions)

C4_WitnessFirstBoundary == exit = "converged" /\ steps = 0 /\ result # 0

\* C5: on exhaustion the value returned is the sum of Evaluate(iterate, k)
\* over all k at the final iterate; the aggregate of the interrupted epoch
\* does not enter it.
C5_ExhaustionRecomputes ==
  exit = "exhausted"
    => /\ result = ObjectiveFrom(0, iterate, numFunctions)
       /\ steps = maxIterations - 1

C5_Witness ==
  /\ exit = "exhausted"
  /\ Len(epochEvals) > 0
  /\ Len(epochEvals) < numFunctions
  /\ EpochSum # 0
  /\ ~NonFinite(result)
  /\ result # EpochSum

IsPermutation(order) ==
  /\ Len(order) = numFunctions
  /\ {order[k] : k \in 1 .. Len(order)} = Indices

\* The indices visited in epoch e (counted from 0), in order.
EpochIndices(e) == [k \in 1 .. numFunctions |-> gradIdx[e * numFunctions + k]]

\* C6: every index handed to Gradient or Evaluate is in [0, numFunctions),
\* every complete epoch visits each index exactly once, and with shuffling the
\* order is always a permutation, drawn once per epoch at the boundary and
\* fixed during the epoch.
C6_EpochVisitsEachTermOnce ==
  /\ [](\A t \in 1 .. Len(gradIdx) : gradIdx[t] \in Indices)
  /\ [](evalIdx = gradIdx)
  /\ [](\A e \in 0 .. steps :
          (e + 1) * numFunctions <= Len(gradIdx) => IsPermutation(EpochIndices(e)))
  /\ [](shuffle /\ pc # "start" => IsPermutation(visitationOrder))
  /\ [](shuffle => shuffles = epochs)
  /\ [](epochs * numFunctions >= steps /\ (epochs - 1) * numFunctions <= steps)
  /\ [][shuffles' # shuffles
          => BoundaryReached /\ pc' = "body" /\ shuffles' = shuffles + 1]_vars
  /\ [][visitationOrder' # visitationOrder
          => pc = "start" \/ (BoundaryReached /\ pc' = "body")]_vars
  /\ [][shuffle /\ StepTaken
          => gradIdx' = Append(gradIdx, visitationOrder[currentFunction + 1])]_vars

C6_Witness ==
  /\ shuffle
  /\ numFunctions = MaxNumFunctions
  /\ Len(gradIdx) = 2 * numFunctions
  /\ EpochIndices(0) # EpochIndices(1)
  /\ gradIdx[1] # 0

\* a >= b on doubles.
AtLeast(a, b) == a # NaN /\ b # NaN /\ a >= b

\* C7 as stated: u is entrywise non-negative and never decreases in a step.
C7_Original ==
  /\ [](adaMax /\ beta2 < Unit => \A j \in 1 .. Len(u) : AtLeast(u[j], 0))
  /\ [][adaMax /\ beta2 < Unit /\ StepTaken
          => \A j \in 1 .. Len(u) : AtLeast(u'[j], u[j])]_vars

\* C7 amended: u is never negative, and a step leaves every entry at the
\* larger of beta2 times its previous value and |gradient|: at least both,
\* equal to one of them, and so never above its previous value unless the
\* gradient is.
C7_InfNormUpdate ==
  /\ [](adaMax /\ beta2 < Unit => \A j \in 1 .. Len(u) : u[j] = NaN \/ u[j] >= 0)
  /\ [](adaMax /\ pc # "start" => Len(u) = Len(iterate) /\ v = << >>)
  /\ [][adaMax /\ beta2 < Unit /\ StepTaken
          => \A j \in 1 .. Len(u) :
               LET decayed == Mul(u[j], beta2)
                   mag     == abs(gradient'[j])
               IN  /\ u'[j] \in {decayed, mag}
                   /\ (decayed # NaN /\ mag # NaN
                         => u'[j] >= decayed /\ u'[j] >= mag)]_vars

C7_Witness ==
  /\ adaMax
  /\ beta2 = Unit \div 2
  /\ steps >= 2
  /\ u[1] # NaN /\ u[1] < PosInf
  /\ gradient[1] # NaN
  /\ u[1] > Magnitude(gradient[1])

\* C8: on a step where 1 - beta1^t is 0, AdaMax leaves iterate untouched, and
\* Adam divides by it all the same, which leaves no entry of iterate finite.
C8_BiasGuard ==
  [][StepTaken /\ pow(beta1, i) = Unit
       => IF adaMax THEN iterate' = iterate
          ELSE \A j \in 1 .. Len(iterate) : NonFinite(iterate'[j])]_vars

C8_Witness ==
  /\ adaMax
  /\ beta1 = Unit
  /\ steps >= 2
  /\ iterate = iterate0
  /\ m = zeros(Len(iterate))
  /\ u[1] > 0

C8_WitnessAdam ==
  /\ ~adaMax
  /\ beta1 = Unit
  /\ steps >= 1
  /\ iterate[1] = NaN

\* C9: a divergence or convergence return happens after a multiple of
\* numFunctions steps, fewer than maxIterations - 1; after maxIterations - 1
\* steps the exit is the exhaustion path, with no boundary check.
C9_ChecksOnlyAtBoundaries ==
  /\ (exit \in {"diverged", "converged"}
        => steps % numFunctions = 0 /\ steps < maxIterations - 1)
  /\ (pc = "done" /\ steps = maxIterations - 1 => exit = "exhausted")
  /\ (pc = "loop" /\ steps = maxIterations - 1
        => ~ENABLED Diverge /\ ~ENABLED Converge /\ ~ENABLED NewEpoch)

C9_Witness ==
  /\ exit = "exhausted"
  /\ steps > 0
  /\ Len(epochEvals) = numFunctions
  /\ NonFinite(EpochSum)

C9_WitnessWithinTolerance ==
  /\ exit = "exhausted"
  /\ steps > 0
  /\ Len(epochEvals) = numFunctions
  /\ ~NonFinite(EpochSum)
  /\ Close(lastObjective, EpochSum)

\* C10: with a finite initial aggregate F and a tolerance of at most
\* DBL_MAX - |F|, a convergence return comes after at least numFunctions
\* steps, even from a start at the minimum.
C10_NoConvergenceAtFirstBoundary ==
  LET F == ObjectiveFrom(0, iterate0, numFunctions)
  IN  /\ (pc = "loop" /\ steps = 0 => lastObjective = DBL_MAX)
      /\ (exit = "converged" /\ ~NonFinite(F) /\ tolerance <= DBL_MAX - Magnitude(F)
            => steps >= numFunctions)

C10_Witness ==
  /\ exit = "converged"
  /\ function.kind = "squares"
  /\ numFunctions = 1
  /\ iterate0 = [j \in 1 .. NElem |-> Target(0)]
  /\ tolerance = Unit \div 2
  /\ steps = 1
  /\ result = 0

=============================================================================
